---- MODULE Spec2Model ----
(***************************************************************************)
(* Model of the two batch jobs of the repository:                          *)
(*   update_sc.py      Starter Criteria evaluation (evaluate_sc, main)     *)
(*   update_tenure.py  tenure of each player with the current team         *)
(*                     (api_get, fetch_all_rosters, fetch_career_tenure,   *)
(*                      fetch_first_game_date, main)                       *)
(*                                                                         *)
(* Four specifications share the variables:                                *)
(*   SpecEval    evaluate_sc applied to every pair of bounded inputs       *)
(*   SpecSC      main() of update_sc.py over sample API responses          *)
(*   SpecWalk    the body of the phase-2 loop of update_tenure.py for one  *)
(*               player over every bounded career history                  *)
(*   SpecTenure  main() of update_tenure.py over sample API responses      *)
(*                                                                         *)
(* Minutes are floats in the code; here they are fixed-point numbers       *)
(* counted in 1/MinScale of a minute.  A season id 'YYYY-YY' is the record *)
(* [start |-> YYYY, end2 |-> YY].                                          *)
(***************************************************************************)
EXTENDS Integers, Sequences, FiniteSets, TLC

VARIABLES
    \* ---- evaluate_sc called on its own (SpecEval)
    ev_pc,          \* "call" before the call, "done" after it
    in_curr,        \* argument curr: season-4 row
    in_prev,        \* argument prev: season-3 row or None
    sc_rec,         \* the returned SCRecord, None before the call
    \* ---- update_sc.py main (SpecSC)
    sc_pc,          \* position in main
    curr_stats,     \* list returned by fetch_nba_stats(curr_season)
    prev_stats,     \* list returned by fetch_nba_stats(prev_season)
    sc_fetch,       \* the last fetch_nba_stats call: outcome, attempts, waits
    sc_i,           \* index of the next row of curr_stats to evaluate
    sc_data,        \* dict name -> SCRecord
    sc_exit,        \* process exit status, Running before the exit
    sc_written,     \* sc_data.json has been written
    \* ---- update_tenure.py main (SpecTenure, SpecWalk)
    t_pc,           \* position in main
    team_i,         \* index of the team whose roster is fetched next
    api_err,        \* the exception api_get caught last in this call, "none" if none
    attempt,        \* loop variable of api_get: failed attempts so far in this call
    waits,          \* the time.sleep arguments of this api_get call, in seconds
    failed_teams,   \* the teams fetch_all_rosters printed FAILED for
    all_players,    \* dict player_id -> info
    order,          \* insertion order of all_players (dict iteration order)
    p_i,            \* index in order of the player being processed
    career_resp,    \* the last playercareerstats response handled (None: fetch failed)
    log_resp,       \* player_id -> the game-log rows handled for it in phase 3
    t_output,       \* the 'players' object written to tenure_data.json, by player id
    t_exit          \* process exit status, Running before the exit

vars == <<ev_pc, in_curr, in_prev, sc_rec,
          sc_pc, curr_stats, prev_stats, sc_fetch, sc_i, sc_data, sc_exit, sc_written,
          t_pc, team_i, api_err, attempt, waits, failed_teams, all_players, order, p_i,
          career_resp, log_resp, t_output, t_exit>>

evalVars == <<ev_pc, in_curr, in_prev, sc_rec>>
scVars == <<sc_pc, curr_stats, prev_stats, sc_fetch, sc_i, sc_data, sc_exit, sc_written>>
tenureVars == <<t_pc, team_i, api_err, attempt, waits, failed_teams, all_players, order, p_i,
                career_resp, log_resp, t_output, t_exit>>

\* Python's None, as a record: every optional value of the model is a record
None == [py |-> "None"]

\* the exit status is "0" or "1" once the process has exited
Running == "running"

EmptyDict == [x \in {} |-> None]

\* d[k] = v of a Python dict
DictPut(d, k, v) == [x \in (DOMAIN d) \cup {k} |-> IF x = k THEN v ELSE d[x]]

(***************************************************************************)
(* update_sc.py                                                            *)
(***************************************************************************)

\* thresholds of the SC rule
GS_THRESHOLD == 41
MIN_THRESHOLD == 2000

\* resolution of the minutes: float(r[min_i]) is counted in 1/MinScale minutes
MinScale == 2

\* inputs of evaluate_sc lie within Spread of the thresholds
Spread == 2

\* round(x) and f"{x:.0f}" of the non-negative float n/d: nearest integer,
\* a tie going to the even neighbour
RoundHalfEven(n, d) ==
    LET q == n \div d
        r == n % d
    IN  IF 2 * r < d THEN q
        ELSE IF 2 * r > d THEN q + 1
        ELSE IF q % 2 = 0 THEN q ELSE q + 1

\* gs4 >= 41
s4_gs(curr) == curr.gs >= GS_THRESHOLD

\* min4 >= 2000
s4_min(curr) == curr.min >= MIN_THRESHOLD * MinScale

\* avg_gs with the division by 2 left out: gs3 + gs4 if prev else gs4
avg_gs_nohalf(curr, prev) == IF prev # None THEN 2 * (prev.gs + curr.gs) ELSE 2 * curr.gs

\* avg_gs as a count of halves: (gs3 + gs4) / 2 if prev else gs4
avg_gs(curr, prev) == IF prev # None THEN prev.gs + curr.gs ELSE 2 * curr.gs

\* avg_min as a count of 1/(2*MinScale) minutes: (min3 + min4) / 2 if prev else min4
avg_min(curr, prev) == IF prev # None THEN prev.min + curr.min ELSE 2 * curr.min

avg_gs_met(curr, prev) == avg_gs(curr, prev) >= 2 * GS_THRESHOLD

avg_min_met(curr, prev) == avg_min(curr, prev) >= 2 * MIN_THRESHOLD * MinScale

\* the list reasons with the average entries not guarded by "and not s4_..."
reasons_nosuppress(curr, prev) ==
    LET r1 == IF s4_gs(curr)
              THEN <<[test |-> "S4 GS", shown |-> <<curr.gs>>]>> ELSE <<>>
        r2 == IF s4_min(curr)
              THEN <<[test |-> "S4 MIN", shown |-> <<RoundHalfEven(curr.min, MinScale)>>]>>
              ELSE <<>>
        r3 == IF avg_gs_met(curr, prev)
              THEN <<[test |-> "Avg GS", shown |-> <<5 * avg_gs(curr, prev)>>]>> ELSE <<>>
        r4 == IF avg_min_met(curr, prev)
              THEN <<[test |-> "Avg MIN",
                      shown |-> <<RoundHalfEven(avg_min(curr, prev), 2 * MinScale)>>]>>
              ELSE <<>>
        rs == r1 \o r2 \o r3 \o r4
    IN  IF rs = <<>>
        THEN <<[test |-> "S4", shown |-> <<curr.gs, RoundHalfEven(curr.min, MinScale)>>]>>
        ELSE rs

\* the list reasons; an entry is the test's label and the numbers formatted into it
\* (GS as is, MIN with .0f, Avg GS with .1f as a count of tenths, Avg MIN with .0f)
reasons(curr, prev) ==
    LET r1 == IF s4_gs(curr)
              THEN <<[test |-> "S4 GS", shown |-> <<curr.gs>>]>> ELSE <<>>
        r2 == IF s4_min(curr)
              THEN <<[test |-> "S4 MIN", shown |-> <<RoundHalfEven(curr.min, MinScale)>>]>>
              ELSE <<>>
        r3 == IF avg_gs_met(curr, prev) /\ ~s4_gs(curr)
              THEN <<[test |-> "Avg GS", shown |-> <<5 * avg_gs(curr, prev)>>]>> ELSE <<>>
        r4 == IF avg_min_met(curr, prev) /\ ~s4_min(curr)
              THEN <<[test |-> "Avg MIN",
                      shown |-> <<RoundHalfEven(avg_min(curr, prev), 2 * MinScale)>>]>>
              ELSE <<>>
        rs == r1 \o r2 \o r3 \o r4
    IN  IF rs = <<>>
        THEN <<[test |-> "S4", shown |-> <<curr.gs, RoundHalfEven(curr.min, MinScale)>>]>>
        ELSE rs

evaluate_sc(curr, prev) ==
    [met    |-> s4_gs(curr) \/ s4_min(curr)
                \/ avg_gs_met(curr, prev) \/ avg_min_met(curr, prev),
     gs4    |-> curr.gs,
     min4   |-> RoundHalfEven(curr.min, MinScale),
     gs3    |-> IF prev # None THEN prev.gs ELSE 0,
     min3   |-> IF prev # None THEN RoundHalfEven(prev.min, MinScale) ELSE 0,
     reason |-> reasons(curr, prev)]

\* ---- SpecEval: evaluate_sc on every bounded input

GSVals == (GS_THRESHOLD - Spread) .. (GS_THRESHOLD + Spread)
MinVals == (MIN_THRESHOLD * MinScale - Spread) .. (MIN_THRESHOLD * MinScale + Spread)
EvalRows == [name : {"A"}, gs : GSVals, min : MinVals]

TenureIdle ==
    /\ t_pc = "idle" /\ team_i = 1 /\ api_err = "none" /\ attempt = 0 /\ waits = <<>>
    /\ failed_teams = {} /\ all_players = EmptyDict /\ order = <<>> /\ p_i = 1
    /\ career_resp = None /\ log_resp = EmptyDict /\ t_output = EmptyDict /\ t_exit = Running

SCIdle ==
    /\ sc_pc = "idle" /\ curr_stats = <<>> /\ prev_stats = <<>>
    /\ sc_fetch = None /\ sc_i = 1 /\ sc_data = EmptyDict
    /\ sc_exit = Running /\ sc_written = FALSE

EvalIdle ==
    /\ ev_pc = "idle" /\ in_curr = None /\ in_prev = None /\ sc_rec = None

InitEval ==
    /\ ev_pc = "call"
    /\ in_curr \in EvalRows
    /\ in_prev \in EvalRows \cup {None}
    /\ sc_rec = None
    /\ SCIdle
    /\ TenureIdle

Evaluate ==
    /\ ev_pc = "call"
    /\ sc_rec' = evaluate_sc(in_curr, in_prev)
    /\ ev_pc' = "done"
    /\ UNCHANGED <<in_curr, in_prev>>
    /\ UNCHANGED scVars
    /\ UNCHANGED tenureVars

NextEval == Evaluate

SpecEval == InitEval /\ [][NextEval]_vars

\* ---- properties of evaluate_sc (SpecEval)

\* C1: the returned met flag is true iff gs4 >= 41 or min4 >= 2000 or avg_gs >= 41 or
\* avg_min >= 2000, the averages being the mean of seasons 3 and 4 when a season-3
\* record exists and the season-4 value itself when none exists.
C1_MetIffAnyTest ==
    ev_pc = "done" =>
        LET gs4 == in_curr.gs
            min4 == in_curr.min
            avgGsOk == IF in_prev = None THEN gs4 >= GS_THRESHOLD
                       ELSE in_prev.gs + gs4 >= 2 * GS_THRESHOLD
            avgMinOk == IF in_prev = None THEN min4 >= MIN_THRESHOLD * MinScale
                        ELSE in_prev.min + min4 >= 2 * MIN_THRESHOLD * MinScale
        IN  sc_rec.met <=> (gs4 >= GS_THRESHOLD \/ min4 >= MIN_THRESHOLD * MinScale
                            \/ avgGsOk \/ avgMinOk)

\* C1 witness: a record met through the averages alone, with a season-3 record
C1_Witness ==
    /\ ev_pc = "done"
    /\ in_prev # None
    /\ sc_rec.met
    /\ in_curr.gs < GS_THRESHOLD
    /\ in_curr.min < MIN_THRESHOLD * MinScale

ReasonRank(t) ==
    CASE t = "S4 GS" -> 1 [] t = "S4 MIN" -> 2 [] t = "Avg GS" -> 3
      [] t = "Avg MIN" -> 4 [] OTHER -> 0

ReasonTests(r) == {r[i].test : i \in DOMAIN r}

\* C2: the reason lists the satisfied tests in the order season-4 GS, season-4 MIN,
\* average GS, average MIN, each at most once; a season-4 reason appears whenever
\* that test is met, an average reason only when that average test is met and the
\* season-4 test of the same quantity is not; when no test is met the reason is the
\* single bare season-4 figures entry.
C2_ReasonOrder ==
    ev_pc = "done" =>
        LET r == sc_rec.reason
            gs4ok == in_curr.gs >= GS_THRESHOLD
            min4ok == in_curr.min >= MIN_THRESHOLD * MinScale
            avgGsOk == IF in_prev = None THEN gs4ok
                       ELSE in_prev.gs + in_curr.gs >= 2 * GS_THRESHOLD
            avgMinOk == IF in_prev = None THEN min4ok
                        ELSE in_prev.min + in_curr.min >= 2 * MIN_THRESHOLD * MinScale
        IN  IF sc_rec.met
            THEN /\ \A i \in DOMAIN r : ReasonRank(r[i].test) > 0
                 /\ \A i, j \in DOMAIN r :
                        i < j => ReasonRank(r[i].test) < ReasonRank(r[j].test)
                 /\ ("S4 GS" \in ReasonTests(r)) <=> gs4ok
                 /\ ("S4 MIN" \in ReasonTests(r)) <=> min4ok
                 /\ ("Avg GS" \in ReasonTests(r)) <=> (avgGsOk /\ ~gs4ok)
                 /\ ("Avg MIN" \in ReasonTests(r)) <=> (avgMinOk /\ ~min4ok)
            ELSE /\ Len(r) = 1
                 /\ r[1].test = "S4"
                 /\ r[1].shown = <<sc_rec.gs4, sc_rec.min4>>

\* C2 witness: a season-4 reason followed by the average reason of the other quantity
C2_Witness ==
    /\ ev_pc = "done"
    /\ Len(sc_rec.reason) = 2
    /\ sc_rec.reason[1].test = "S4 GS"
    /\ sc_rec.reason[2].test = "Avg MIN"

\* C10: every SCRecord is consistent with its own recorded figures: no record
\* reports min4 >= 2000 with met = false.
C10_RecordConsistent ==
    ev_pc = "done" => (sc_rec.min4 >= MIN_THRESHOLD => sc_rec.met)

(***************************************************************************)
(* update_sc.py: fetch_nba_stats and main (SpecSC)                         *)
(***************************************************************************)

\* a response carries at most MaxRows rows
MaxRows == 2

\* rows of the leaguedashplayerstats table: the totals of the examples
\* (GS 45, MIN 1800), (GS 20, MIN 1600), (GS 41, MIN 1500) for two names
SampleRows ==
    { [name |-> n, gs |-> st[1], min |-> st[2] * MinScale] :
        n \in {"A", "B"}, st \in {<<45, 1800>>, <<20, 1600>>, <<41, 1500>>} }

RECURSIVE SeqsUpTo(_, _)
SeqsUpTo(S, n) ==
    IF n = 0 THEN {<<>>}
    ELSE LET shorter == SeqsUpTo(S, n - 1)
         IN  shorter \cup {Append(q, x) : q \in {t \in shorter : Len(t) = n - 1}, x \in S}

\* what one HTTP exchange can give: a decoded table, a transport error (URLError),
\* a non-success status (HTTPError), a body that is not JSON, JSON without the
\* expected fields
StatsResponses ==
    { [kind |-> "ok", rows |-> rs] : rs \in SeqsUpTo(SampleRows, MaxRows) }
    \cup { [kind |-> k, rows |-> <<>>] : k \in {"transport", "http", "badjson", "nofields"} }

\* fetch_nba_stats on one response: one urlopen, no retry and no wait; URLError and
\* HTTPError are caught and give []; json.loads and the field lookups are outside
\* the except clause, so their exceptions leave the function
fetch_nba_stats(resp) ==
    [raised   |-> resp.kind \in {"badjson", "nofields"},
     players  |-> IF resp.kind = "ok" THEN resp.rows ELSE <<>>,
     kind     |-> resp.kind,
     attempts |-> 1,
     waits    |-> <<>>]

\* prev_by_name.get(name): the dict comprehension keeps the last row of a name
prev_by_name(name) ==
    LET idx == {i \in DOMAIN prev_stats : prev_stats[i].name = name}
    IN  IF idx = {} THEN None
        ELSE prev_stats[CHOOSE i \in idx : \A j \in idx : j <= i]

InitSC ==
    /\ sc_pc = "fetch_curr"
    /\ curr_stats = <<>> /\ prev_stats = <<>>
    /\ sc_fetch = None /\ sc_i = 1 /\ sc_data = EmptyDict
    /\ sc_exit = Running /\ sc_written = FALSE
    /\ EvalIdle
    /\ TenureIdle

\* curr_stats = fetch_nba_stats(curr_season)
FetchCurr ==
    /\ sc_pc = "fetch_curr"
    /\ \E resp \in StatsResponses :
        LET f == fetch_nba_stats(resp)
        IN  /\ sc_fetch' = [season |-> "curr", kind |-> f.kind,
                            attempts |-> f.attempts, waits |-> f.waits]
            /\ IF f.raised
               THEN /\ sc_pc' = "raised" /\ sc_exit' = "1"
                    /\ UNCHANGED curr_stats
               ELSE /\ sc_pc' = "fetch_prev" /\ curr_stats' = f.players
                    /\ UNCHANGED sc_exit
    /\ UNCHANGED <<prev_stats, sc_i, sc_data, sc_written>>
    /\ UNCHANGED evalVars
    /\ UNCHANGED tenureVars

\* prev_stats = fetch_nba_stats(prev_season)
FetchPrev ==
    /\ sc_pc = "fetch_prev"
    /\ \E resp \in StatsResponses :
        LET f == fetch_nba_stats(resp)
        IN  /\ sc_fetch' = [season |-> "prev", kind |-> f.kind,
                            attempts |-> f.attempts, waits |-> f.waits]
            /\ IF f.raised
               THEN /\ sc_pc' = "raised" /\ sc_exit' = "1"
                    /\ UNCHANGED prev_stats
               ELSE /\ sc_pc' = "check" /\ prev_stats' = f.players
                    /\ UNCHANGED sc_exit
    /\ UNCHANGED <<curr_stats, sc_i, sc_data, sc_written>>
    /\ UNCHANGED evalVars
    /\ UNCHANGED tenureVars

\* if not curr_stats: sys.exit(1)
CheckCurr ==
    /\ sc_pc = "check"
    /\ IF curr_stats = <<>>
       THEN sc_pc' = "exited" /\ sc_exit' = "1"
       ELSE sc_pc' = "eval" /\ UNCHANGED sc_exit
    /\ UNCHANGED <<curr_stats, prev_stats, sc_fetch, sc_i, sc_data, sc_written>>
    /\ UNCHANGED evalVars
    /\ UNCHANGED tenureVars

\* one iteration of: for p in curr_stats: sc_data[p["name"]] = evaluate_sc(p, prev)
EvalPlayer ==
    /\ sc_pc = "eval"
    /\ sc_i <= Len(curr_stats)
    /\ LET p == curr_stats[sc_i]
       IN  sc_data' = DictPut(sc_data, p.name, evaluate_sc(p, prev_by_name(p.name)))
    /\ sc_i' = sc_i + 1
    /\ UNCHANGED <<sc_pc, curr_stats, prev_stats, sc_fetch, sc_exit, sc_written>>
    /\ UNCHANGED evalVars
    /\ UNCHANGED tenureVars

\* json.dump(output, f) and the return of main
WriteSC ==
    /\ sc_pc = "eval"
    /\ sc_i > Len(curr_stats)
    /\ sc_written' = TRUE
    /\ sc_pc' = "done"
    /\ sc_exit' = "0"
    /\ UNCHANGED <<curr_stats, prev_stats, sc_fetch, sc_i, sc_data>>
    /\ UNCHANGED evalVars
    /\ UNCHANGED tenureVars

NextSC ==
    \/ FetchCurr
    \/ FetchPrev
    \/ CheckCurr
    \/ EvalPlayer
    \/ WriteSC

SpecSC == InitSC /\ [][NextSC]_vars

\* C6: every leaf fetch makes at most 3 attempts, waits 3 s x attempt number after a
\* failed attempt, and after exhausting the attempts returns an empty result instead
\* of raising, for a transport error, a non-success status and malformed or missing
\* JSON fields alike.  Stated of fetch_nba_stats.
C6_LeafFetchRetries ==
    /\ sc_pc # "raised"
    /\ sc_fetch # None =>
        /\ sc_fetch.attempts <= 3
        /\ sc_fetch.kind # "ok" =>
            (sc_fetch.attempts = 3 /\ sc_fetch.waits = <<3, 6, 9>>)

(***************************************************************************)
(* update_tenure.py                                                        *)
(***************************************************************************)

SEASON_START_YEAR == 2025

\* the season id 'YYYY-YY' of the season starting in year y
SeasonId(y) == [start |-> y, end2 |-> (y + 1) % 100]

\* int(joined_season.split('-')[0])
StartYear(sid) == sid.start

SEASON == SeasonId(SEASON_START_YEAR)

\* NBA_TEAMS, two of its thirty entries, in the order of sorted(..., key=abbr)
NBA_TEAMS ==
    << [team_id |-> 1610612737, abbr |-> "ATL"],
       [team_id |-> 1610612738, abbr |-> "BOS"] >>

TeamIds == {NBA_TEAMS[i].team_id : i \in DOMAIN NBA_TEAMS}

\* for attempt in range(3)
MAX_ATTEMPTS == 3

\* what r.json() can be when api_get returns it: JSON with the named result table,
\* JSON without it (the callers' loops over resultSets find nothing), JSON whose
\* result sets lack the keys the callers index (rs['name'], rs['headers'])
TableResponses(rowsets) ==
    { [kind |-> "table", rows |-> rs] : rs \in rowsets }
    \cup { [kind |-> k, rows |-> <<>>] : k \in {"notable", "nokey"} }

\* the value api_get returns to its caller: None once the three attempts have
\* failed, otherwise the JSON of the first attempt that succeeds
ApiGetReturns(responses) == IF attempt = MAX_ATTEMPTS THEN {None} ELSE responses

\* ---- fetch_career_tenure

\* season_teams: the (SEASON_ID, TEAM_ID) of the rows of league '00'
season_teams(rows) == SelectSeq(rows, LAMBDA r : r.lid = "00")

\* season_list: the keys of seasons_with_team, in order of first appearance
RECURSIVE season_list(_)
season_list(st) ==
    IF st = <<>> THEN <<>>
    ELSE LET front == season_list(SubSeq(st, 1, Len(st) - 1))
             sid == st[Len(st)].sid
         IN  IF \E i \in DOMAIN front : front[i] = sid THEN front ELSE Append(front, sid)

\* seasons_with_team[sid]
seasons_with_team(st, sid) == {st[i].tid : i \in {j \in DOMAIN st : st[j].sid = sid}}

\* for sid in reversed(season_list): the walk from position i down, with the
\* first_season and count reached so far; the else branch breaks
RECURSIVE walk_back(_, _, _, _, _, _)
walk_back(st, sl, team, i, first, count) ==
    IF i = 0 THEN [first_season |-> first, count |-> count]
    ELSE IF team \in seasons_with_team(st, sl[i])
         THEN walk_back(st, sl, team, i - 1, sl[i], count + 1)
         ELSE [first_season |-> first, count |-> count]

\* the walk with the else branch skipping the season instead of breaking
RECURSIVE walk_noBreak(_, _, _, _, _, _)
walk_noBreak(st, sl, team, i, first, count) ==
    IF i = 0 THEN [first_season |-> first, count |-> count]
    ELSE IF team \in seasons_with_team(st, sl[i])
         THEN walk_noBreak(st, sl, team, i - 1, sl[i], count + 1)
         ELSE walk_noBreak(st, sl, team, i - 1, first, count)

streak_noBreak(st, team) ==
    walk_noBreak(st, season_list(st), team, Len(season_list(st)), None, 0)

\* first_season = None; count = 0; for sid in reversed(season_list): ...
streak(st, team) ==
    walk_back(st, season_list(st), team, Len(season_list(st)), None, 0)

\* fetch_career_tenure on the value api_get returned (not the "nokey" JSON, on
\* which it raises KeyError)
fetch_career_tenure(data, current_team_id) ==
    IF data = None THEN [first_season |-> None, count |-> 0]
    ELSE IF data.kind # "table" THEN [first_season |-> None, count |-> 0]
    ELSE IF season_teams(data.rows) = <<>> THEN [first_season |-> None, count |-> 0]
    ELSE streak(season_teams(data.rows), current_team_id)

\* ---- fetch_first_game_date on the value api_get returned: the GAME_DATE of the
\* last row (not the "nokey" JSON, on which it raises KeyError)
fetch_first_game_date(data) ==
    IF data = None THEN None
    ELSE IF data.kind # "table" THEN None
    ELSE IF data.rows = <<>> THEN None
    ELSE data.rows[Len(data.rows)]

\* ---- main

\* key 'joined_date' not in info
Absent == [py |-> "absent"]

\* f"{start_yr}-10-01"
ApproxDate(sid) == [approx_year |-> StartYear(sid)]

\* the info dict fetch_all_rosters stores for a roster row; joined_season,
\* continuous_seasons and joined_this_season are absent until phase 2 and hold
\* here what info.get reads of an absent key
NewInfo(pid, team) ==
    [team |-> team.abbr, team_id |-> team.team_id, player_id |-> pid,
     joined_season |-> None, continuous_seasons |-> 0,
     joined_this_season |-> FALSE, joined_date |-> Absent]

\* the body of the phase-2 loop: the info of a player after fetch_career_tenure
\* returned for the response data
Phase2Info(info, data) ==
    LET r == fetch_career_tenure(data, info.team_id)
    IN  [info EXCEPT !.joined_season = r.first_season,
                     !.continuous_seasons = r.count,
                     !.joined_this_season = (r.first_season = SEASON /\ r.count = 1)]

\* the loop before the output is built: an info without 'joined_date' and with a
\* joined_season gets the approximate date
ApproxInfo(info) ==
    IF info.joined_date = Absent /\ info.joined_season # None
    THEN [info EXCEPT !.joined_date = ApproxDate(info.joined_season)]
    ELSE info

\* the entry of output['players'] built from an info; info.get gives None for a
\* 'joined_date' that is absent
OutputEntry(info) ==
    [team |-> info.team, team_id |-> info.team_id, player_id |-> info.player_id,
     joined_season |-> info.joined_season,
     joined_date |-> IF info.joined_date = Absent THEN None ELSE info.joined_date,
     continuous_seasons |-> info.continuous_seasons,
     joined_this_season |-> info.joined_this_season]

\* ---- the responses of the stats API

\* career histories reach back NumPrior seasons before the current one
NumPrior == 4

\* rosters hold player ids 1..MaxPlayers
MaxPlayers == 2

\* game logs hold at most MaxGames games
MaxGames == 2

Pids == 1 .. MaxPlayers

RECURSIVE Ascending(_)
Ascending(S) ==
    IF S = {} THEN <<>>
    ELSE LET m == CHOOSE x \in S : \A y \in S : x <= y
         IN  <<m>> \o Ascending(S \ {m})

RECURSIVE Descending(_)
Descending(S) ==
    IF S = {} THEN <<>>
    ELSE LET m == CHOOSE x \in S : \A y \in S : x >= y
         IN  <<m>> \o Descending(S \ {m})

\* the SeasonTotalsRegularSeason rows of a player who played in season y for the
\* teams f[y]: chronological, one row per season and team
RECURSIVE CareerRows(_, _)
CareerRows(f, y) ==
    IF y > SEASON_START_YEAR THEN <<>>
    ELSE LET ts == Ascending(f[y])
         IN  [i \in DOMAIN ts |-> [sid |-> SeasonId(y), tid |-> ts[i], lid |-> "00"]]
             \o CareerRows(f, y + 1)

CareersSince(y0) ==
    { CareerRows(f, y0) : f \in [y0 .. SEASON_START_YEAR -> SUBSET TeamIds] }

\* every career over the last NumPrior seasons and the current one
AllCareers == CareersSince(SEASON_START_YEAR - NumPrior)

\* the careers main is run on: the last season and the current one, and one with
\* a row of another league before the current season
SampleCareers ==
    CareersSince(SEASON_START_YEAR - 1)
    \cup { << [sid |-> SeasonId(SEASON_START_YEAR - 1), tid |-> t, lid |-> "20"],
              [sid |-> SeasonId(SEASON_START_YEAR), tid |-> t, lid |-> "00"] >> :
            t \in TeamIds }

\* CommonTeamRoster rows: the PLAYER_ID of each row
RosterRows == {q \in SeqsUpTo(Pids, MaxPlayers) : \A i, j \in DOMAIN q : i # j => q[i] # q[j]}

\* PlayerGameLog rows, newest first: the GAME_DATE of each row, as the day of the season
GameLogRows ==
    { [i \in DOMAIN Descending(S) |-> [game_day |-> Descending(S)[i]]] :
        S \in SUBSET (1 .. MaxGames) }

\* ---- SpecWalk: the phase-2 loop body for one player, over every career

InitWalk ==
    /\ t_pc = "walk"
    /\ team_i = Len(NBA_TEAMS) + 1
    /\ api_err = "none" /\ attempt \in {0, MAX_ATTEMPTS} /\ waits = <<>>
    /\ failed_teams = {}
    /\ \E k \in DOMAIN NBA_TEAMS : all_players = [pid \in {1} |-> NewInfo(1, NBA_TEAMS[k])]
    /\ order = <<1>> /\ p_i = 1
    /\ career_resp \in ApiGetReturns(TableResponses(AllCareers))
    /\ log_resp = EmptyDict /\ t_output = EmptyDict /\ t_exit = Running
    /\ EvalIdle
    /\ SCIdle

\* first_season, count = fetch_career_tenure(pid, info['team_id']) and the three
\* assignments to info that follow it
WalkPlayer ==
    /\ t_pc = "walk"
    /\ LET pid == order[p_i]
       IN  IF career_resp # None /\ career_resp.kind = "nokey"
           THEN /\ t_pc' = "raised" /\ t_exit' = "1"
                /\ UNCHANGED all_players
           ELSE /\ t_pc' = "walked"
                /\ all_players' =
                     [all_players EXCEPT ![pid] = Phase2Info(@, career_resp)]
                /\ UNCHANGED t_exit
    /\ UNCHANGED <<team_i, api_err, attempt, waits, failed_teams, order, p_i,
                   career_resp, log_resp, t_output>>
    /\ UNCHANGED evalVars
    /\ UNCHANGED scVars

NextWalk == WalkPlayer

SpecWalk == InitWalk /\ [][NextWalk]_vars

\* ---- properties of the tenure walk (SpecWalk)

\* the player walked, the response it was walked on, and what the response says
WalkedInfo == all_players[1]

WalkHasRows == career_resp # None /\ career_resp.kind = "table"

WalkYears == (SEASON_START_YEAR - NumPrior) .. SEASON_START_YEAR

\* the teams the response lists for the player in the season starting in year y
TeamsIn(y) ==
    { career_resp.rows[i].tid :
        i \in { j \in DOMAIN career_resp.rows : career_resp.rows[j].sid = SeasonId(y) } }

OnCurrentTeam(y) == WalkedInfo.team_id \in TeamsIn(y)

\* C3: walking from the most recent season to the oldest, tenure-start is extended
\* over each season whose team set contains the current team, and the first season
\* whose team set does not contain it freezes the result: no older season changes
\* tenure-start or the count, even one spent on the current team.  A player on team A
\* in seasons N, N-1, N-2 and on team B in N-3 gets tenure-start N-2 and count 3.
C3_WalkFreezes ==
    (t_pc = "walked" /\ WalkHasRows) =>
        LET present == {y \in WalkYears : TeamsIn(y) # {}}
            breaks == {y \in present : ~OnCurrentTeam(y)}
            stint == {y \in present : \A z \in breaks : y > z}
            N == SEASON_START_YEAR
        IN  /\ WalkedInfo.continuous_seasons = Cardinality(stint)
            /\ stint = {} => WalkedInfo.joined_season = None
            /\ stint # {} =>
                 WalkedInfo.joined_season =
                     SeasonId(CHOOSE y \in stint : \A z \in stint : y <= z)
            /\ (/\ OnCurrentTeam(N) /\ OnCurrentTeam(N - 1) /\ OnCurrentTeam(N - 2)
                /\ TeamsIn(N - 3) # {} /\ ~OnCurrentTeam(N - 3))
               => (/\ WalkedInfo.joined_season = SeasonId(N - 2)
                   /\ WalkedInfo.continuous_seasons = 3)

\* C3 witness: on the current team in N, N-1, N-2, on the other team in N-3 and on the
\* current team again in N-4; the walk stops at N-2
C3_Witness ==
    /\ t_pc = "walked" /\ WalkHasRows
    /\ OnCurrentTeam(SEASON_START_YEAR)
    /\ OnCurrentTeam(SEASON_START_YEAR - 1)
    /\ OnCurrentTeam(SEASON_START_YEAR - 2)
    /\ TeamsIn(SEASON_START_YEAR - 3) # {} /\ ~OnCurrentTeam(SEASON_START_YEAR - 3)
    /\ OnCurrentTeam(SEASON_START_YEAR - 4)
    /\ WalkedInfo.joined_season = SeasonId(SEASON_START_YEAR - 2)
    /\ WalkedInfo.continuous_seasons = 3

\* C4: every player of the roster has a non-null joined season and a continuous-season
\* count of at least 1; a player with no data in any prior season ends with
\* tenure-start = current season, count 1 and joined-this-season = true.
C4_StartsAtCurrentSeason ==
    t_pc = "walked" =>
        /\ WalkedInfo.joined_season # None
        /\ WalkedInfo.continuous_seasons >= 1
        /\ (~WalkHasRows
            \/ \A y \in WalkYears : y < SEASON_START_YEAR => TeamsIn(y) = {})
           => (/\ WalkedInfo.joined_season = SEASON
               /\ WalkedInfo.continuous_seasons = 1
               /\ WalkedInfo.joined_this_season)

\* C5: for every player with a resolved tenure-start, the continuous-season count is
\* start year of the current season - start year of the tenure-start season + 1.
C5_CountIsYearSpan ==
    (t_pc = "walked" /\ WalkedInfo.joined_season # None) =>
        WalkedInfo.continuous_seasons =
            SEASON_START_YEAR - StartYear(WalkedInfo.joined_season) + 1

\* C9: a season in which the player has no data ends the walk like a season on another
\* team: no season of the stint lies before a season without data, so every season
\* from tenure-start to the most recent one has data for the player.
C9_NoDataEndsWalk ==
    (/\ t_pc = "walked" /\ WalkHasRows
     /\ TeamsIn(SEASON_START_YEAR) # {}
     /\ WalkedInfo.joined_season # None)
    => \A y \in WalkYears :
          y >= StartYear(WalkedInfo.joined_season) => TeamsIn(y) # {}

(***************************************************************************)
(* update_tenure.py: api_get and main (SpecTenure)                         *)
(***************************************************************************)

InitTenure ==
    /\ t_pc = "rosters" /\ team_i = 1
    /\ api_err = "none" /\ attempt = 0 /\ waits = <<>>
    /\ failed_teams = {} /\ all_players = EmptyDict /\ order = <<>> /\ p_i = 1
    /\ career_resp = None /\ log_resp = EmptyDict
    /\ t_output = EmptyDict /\ t_exit = Running
    /\ EvalIdle
    /\ SCIdle

\* new_players: the players with joined_this_season, in dict order
new_players == SelectSeq(order, LAMBDA pid : all_players[pid].joined_this_season)

\* main is inside a call of api_get
InApiGet ==
    \/ t_pc = "rosters" /\ team_i <= Len(NBA_TEAMS)
    \/ t_pc = "phase2" /\ p_i <= Len(order)
    \/ t_pc = "phase3" /\ p_i <= Len(new_players)

\* api_get: one attempt that ends in the except clause (requests.get raises,
\* raise_for_status raises, r.json() raises), then time.sleep(3 * (attempt + 1))
ApiGetFail ==
    /\ InApiGet
    /\ attempt < MAX_ATTEMPTS
    /\ \E e \in {"transport", "http", "badjson"} : api_err' = e
    /\ waits' = Append(waits, 3 * (attempt + 1))
    /\ attempt' = attempt + 1
    /\ UNCHANGED <<t_pc, team_i, failed_teams, all_players, order, p_i, career_resp,
                   log_resp, t_output, t_exit>>
    /\ UNCHANGED evalVars
    /\ UNCHANGED scVars

\* the next call of api_get starts with attempt 0
ApiGetReset == api_err' = "none" /\ attempt' = 0 /\ waits' = <<>>

\* an uncaught KeyError ends the process
Raise ==
    /\ t_pc' = "raised" /\ t_exit' = "1"
    /\ UNCHANGED <<team_i, api_err, attempt, waits, failed_teams, all_players, order, p_i,
                   career_resp, log_resp, t_output>>

\* fetch_all_rosters: api_get returns for a team and its rows are stored; after the
\* last team main goes on to phase 2 whatever all_players holds
Roster ==
    /\ t_pc = "rosters"
    /\ team_i <= Len(NBA_TEAMS)
    /\ \E data \in ApiGetReturns(TableResponses(RosterRows)) :
        IF data # None /\ data.kind = "nokey"
        THEN Raise
        ELSE LET rows == IF data = None THEN <<>> ELSE data.rows
                 pids == {rows[i] : i \in DOMAIN rows}
             IN  /\ all_players' =
                      [pid \in (DOMAIN all_players) \cup pids |->
                          IF pid \in pids THEN NewInfo(pid, NBA_TEAMS[team_i])
                          ELSE all_players[pid]]
                 /\ failed_teams' = IF data = None
                                    THEN failed_teams \cup {NBA_TEAMS[team_i].abbr}
                                    ELSE failed_teams
                 /\ order' = order \o SelectSeq(rows, LAMBDA pid : pid \notin DOMAIN all_players)
                 /\ team_i' = team_i + 1
                 /\ t_pc' = IF team_i = Len(NBA_TEAMS) THEN "phase2" ELSE "rosters"
                 /\ p_i' = 1
                 /\ ApiGetReset
                 /\ UNCHANGED <<career_resp, log_resp, t_output, t_exit>>
    /\ UNCHANGED evalVars
    /\ UNCHANGED scVars

\* phase 2, one player: api_get returns and fetch_career_tenure's result is stored
Career ==
    /\ t_pc = "phase2"
    /\ p_i <= Len(order)
    /\ \E data \in ApiGetReturns(TableResponses(SampleCareers)) :
        IF data # None /\ data.kind = "nokey"
        THEN Raise
        ELSE /\ all_players' = [all_players EXCEPT ![order[p_i]] = Phase2Info(@, data)]
             /\ career_resp' = data
             /\ p_i' = p_i + 1
             /\ ApiGetReset
             /\ UNCHANGED <<t_pc, team_i, failed_teams, order, log_resp, t_output, t_exit>>
    /\ UNCHANGED evalVars
    /\ UNCHANGED scVars

\* the end of the phase-2 loop: new_players is built
StartPhase3 ==
    /\ t_pc = "phase2"
    /\ p_i > Len(order)
    /\ t_pc' = "phase3"
    /\ p_i' = 1
    /\ UNCHANGED <<team_i, api_err, attempt, waits, failed_teams, all_players, order,
                   career_resp, log_resp, t_output, t_exit>>
    /\ UNCHANGED evalVars
    /\ UNCHANGED scVars

\* phase 3, one new player: api_get returns; if first_date: info['joined_date'] = it
GameLog ==
    /\ t_pc = "phase3"
    /\ p_i <= Len(new_players)
    /\ \E data \in ApiGetReturns(TableResponses(GameLogRows)) :
        IF data # None /\ data.kind = "nokey"
        THEN Raise
        ELSE LET pid == new_players[p_i]
                 first_date == fetch_first_game_date(data)
             IN  /\ all_players' =
                      IF first_date # None
                      THEN [all_players EXCEPT ![pid].joined_date = first_date]
                      ELSE all_players
                 /\ log_resp' = DictPut(log_resp, pid, data)
                 /\ p_i' = p_i + 1
                 /\ ApiGetReset
                 /\ UNCHANGED <<t_pc, team_i, failed_teams, order, career_resp, t_output,
                              t_exit>>
    /\ UNCHANGED evalVars
    /\ UNCHANGED scVars

\* the approximate dates, the output and json.dump; main returns
BuildOutput ==
    /\ t_pc = "phase3"
    /\ p_i > Len(new_players)
    /\ all_players' = [pid \in DOMAIN all_players |-> ApproxInfo(all_players[pid])]
    /\ t_output' = [pid \in DOMAIN all_players |-> OutputEntry(ApproxInfo(all_players[pid]))]
    /\ t_pc' = "done"
    /\ t_exit' = "0"
    /\ UNCHANGED <<team_i, api_err, attempt, waits, failed_teams, order, p_i,
                   career_resp, log_resp>>
    /\ UNCHANGED evalVars
    /\ UNCHANGED scVars

NextTenure ==
    \/ ApiGetFail
    \/ Roster
    \/ Career
    \/ StartPhase3
    \/ GameLog
    \/ BuildOutput

SpecTenure == InitTenure /\ [][NextTenure]_vars

\* C7: if the mandatory initial fetch fails and yields no data, the process exits with
\* a non-zero status instead of completing the run; a fetch that fails later never
\* aborts the run.  Stated of update_tenure.py: a run in which the roster fetch failed
\* for every team ends with a non-zero exit status, and an abort never follows an
\* api_get of phase 2 or 3 that failed.
C7_MandatoryFetchFatal ==
    /\ (/\ t_pc \in {"done", "raised"}
        /\ failed_teams = {NBA_TEAMS[i].abbr : i \in DOMAIN NBA_TEAMS}) => t_exit # "0"
    /\ (t_pc = "raised" /\ team_i > Len(NBA_TEAMS)) => attempt < MAX_ATTEMPTS

\* C8: for every player flagged joined-this-season the reported join date is the date
\* of the last row of the player's game log, and null if the game log has no rows or
\* could not be fetched; only players not flagged joined-this-season get the
\* approximate season-start date.
C8_ExactJoinDate ==
    t_pc = "done" =>
        \A pid \in DOMAIN t_output :
            LET e == t_output[pid]
                log == log_resp[pid]
            IN  e.joined_this_season =>
                    /\ pid \in DOMAIN log_resp
                    /\ e.joined_date =
                         IF log # None /\ log.kind = "table" /\ log.rows # <<>>
                         THEN log.rows[Len(log.rows)]
                         ELSE None

====
